---- MODULE Spec2Model ----
(***************************************************************************)
(* Model of the per-worker dispatch loop handle_worker of                  *)
(* inference/server/oasst_inference_server/routes/workers.py: the pending  *)
(* futures (queue dequeue, websocket receive), the in-flight ledger        *)
(* work_request_map, the response handlers, the recovery pass of the       *)
(* except clause and the teardown steps of the finally clause.             *)
(*                                                                         *)
(* The loop is one coroutine; the dequeue and receive futures are tasks    *)
(* that make progress whenever the coroutine is suspended in an await.     *)
(* Every handler awaits, so a future may complete between any two steps of *)
(* the loop.  Calls to the message store, the queue, the session registry  *)
(* and the websocket may raise; which ones do is a nondeterministic input. *)
(***************************************************************************)
EXTENDS Integers, Sequences, FiniteSets, Bags, TLC

\* Bounds of the model.
NumMsgs == 2        \* message ids that clients may enqueue
MaxParallel == 2    \* largest worker_config.max_parallel_requests tried
MaxTokens == 1      \* cap on num_responses of one entry

Msgs == 1..NumMsgs
MaxReq == NumMsgs + 1
ReqIds == 1..MaxReq
NullId == 0

Kinds == {"pong", "token", "generated_text", "error", "general_error", "unknown"}
KeyedKinds == {"token", "generated_text", "error"}

VARIABLES
    pc,                     \* position of the handle_worker coroutine
    max_parallel_requests,  \* worker_config.max_parallel_requests
    work_request_map,       \* request id -> [message_id, num_responses]
    pending_futures,        \* the set pending_futures, as a bag of future states
    done,                   \* the part of `done` the for loop has not yet visited
    queue,                  \* the work queue of the worker's compat hash
    msgState,               \* message store: state of each message
    abortReason,            \* message store: reason of the last abort_work
    channel,                \* per-message output channel: token payloads forwarded
    finished,               \* per-message output channel: finished notification sent
    e,                      \* the local variable e of the except clauses
    nextReq,                \* next request id build_work_request hands out
    wsDisconnected,         \* websocket.client_state == DISCONNECTED
    redisClosed,            \* the dedicated redis client was closed
    worker_session,         \* the WorkerSession as stored in the registry
    toVisit,                \* ledger entries the recovery loop has not visited yet
    popped,                 \* history: messages a dequeue of this connection took
    rollback,               \* history: what the dispatch site did on a failed send
    recov,                  \* history: what recovery did for each ledger entry
    completed,              \* history: messages whose complete_work succeeded
    errored,                \* history: messages an error response was routed for
    termError,              \* history: the error that ended the loop
    steps                   \* history: termination steps attempted, in order

vars == <<pc, max_parallel_requests, work_request_map, pending_futures, done,
          queue, msgState, abortReason, channel, finished, e, nextReq,
          wsDisconnected, redisClosed, worker_session, toVisit, popped, rollback,
          recov, completed, errored, termError, steps>>

----------------------------------------------------------------------------
\* Futures

\* A future is its state: futures in the same state are interchangeable, so a set
\* of futures is a bag of states.
NoRes == [t |-> "none", m |-> 0, kind |-> "", rid |-> 0]
ItemRes(m) == [t |-> "item", m |-> m, kind |-> "", rid |-> 0]
ExcRes(name) == [t |-> "exc", m |-> 0, kind |-> name, rid |-> 0]
RespRes(k, r) == [t |-> "resp", m |-> 0, kind |-> k, rid |-> r]

NewFuture(k) == [kind |-> k, st |-> "running", res |-> NoRes]
Completed(x, res) == [x EXCEPT !.st = "done", !.res = res]

Add(ftrs, x) == ftrs (+) SetToBag({x})
Drop(ftrs, x) == ftrs (-) SetToBag({x})
Only(ftrs, S) == [x \in BagToSet(ftrs) \cap S |-> ftrs[x]]

IsRunning(x) == x.st = "running"
IsDone(x) == x.st = "done"
IsPendingDequeue(x) == x.kind = "dequeue" /\ x.st = "running"
IsPendingReceive(x) == x.kind = "receive" /\ x.st = "running"

\* def _add_dequeue(ftrs): a dequeue is added iff the ledger is under the cap.
add_dequeue(ftrs, map) ==
    IF Cardinality(DOMAIN map) < max_parallel_requests
    THEN Add(ftrs, NewFuture("dequeue"))
    ELSE ftrs

\* def _add_receive(ftrs)
add_receive(ftrs) == Add(ftrs, NewFuture("receive"))

EmptyMap == [r \in {} |-> [message_id |-> 0, num_responses |-> 0]]

\* get_work_request_container: the lookup raises WorkRequestNotFound for a null
\* request id and for one that is not a key of the map.
Found(map, rid) == rid # NullId /\ rid \in DOMAIN map

\* _add_dequeue(pending_futures); _add_receive(pending_futures) on the empty set
InitFutures == add_receive(add_dequeue(EmptyBag, EmptyMap))

Init ==
    /\ max_parallel_requests \in 1..MaxParallel
    /\ pc = "top"
    /\ work_request_map = EmptyMap
    /\ pending_futures = InitFutures
    /\ done = EmptyBag
    /\ queue = <<>>
    /\ msgState = [m \in Msgs |-> "new"]
    /\ abortReason = [m \in Msgs |-> ""]
    /\ channel = [m \in Msgs |-> 0]
    /\ finished = [m \in Msgs |-> FALSE]
    /\ e = "unbound"
    /\ nextReq = 1
    /\ wsDisconnected = FALSE
    /\ redisClosed = FALSE
    /\ worker_session = [requests_in_flight |-> 0]
    /\ toVisit = {}
    /\ popped = {}
    /\ rollback = [m \in Msgs |-> "none"]
    /\ recov = [r \in ReqIds |-> "none"]
    /\ completed = {}
    /\ errored = {}
    /\ termError = ""
    /\ steps = <<>>

----------------------------------------------------------------------------
\* Environment: clients, the queue server, the worker

Running == pc \in {"top", "wait", "iter"}

\* A client creates a message and enqueues its id, once per message.  Message ids
\* are names: the clients use them in increasing order.  What clients enqueue
\* after the loop has ended is left out: nothing of this connection reads it.
ClientEnqueue(m) ==
    /\ Running
    /\ msgState[m] = "new"
    /\ \A k \in Msgs : k < m => msgState[k] # "new"
    /\ msgState' = [msgState EXCEPT ![m] = "pending"]
    /\ queue' = Append(queue, m)
    /\ UNCHANGED <<pc, max_parallel_requests, work_request_map, pending_futures,
                   done, abortReason, channel, finished, e, nextReq, wsDisconnected,
                   redisClosed, worker_session, toVisit, popped, rollback, recov,
                   completed, errored, termError, steps>>

\* blocking_work_queue.dequeue(timeout=0) returns: the blocking pop takes the head
\* of the queue.  The task runs until it is cancelled or its client is closed.
DequeueComplete ==
    /\ BagIn(NewFuture("dequeue"), pending_futures)
    /\ ~redisClosed
    /\ queue # <<>>
    /\ pending_futures' = Add(Drop(pending_futures, NewFuture("dequeue")),
                              Completed(NewFuture("dequeue"), ItemRes(Head(queue))))
    /\ queue' = Tail(queue)
    /\ popped' = popped \cup {Head(queue)}
    /\ UNCHANGED <<pc, max_parallel_requests, work_request_map, done,
                   msgState, abortReason, channel, finished, e, nextReq,
                   wsDisconnected, redisClosed, worker_session, toVisit, rollback,
                   recov, completed, errored, termError, steps>>

\* The blocking pop raises (connection error); nothing is taken from the queue.
\* Only the next asyncio.wait reads a future's result, so a completion that changes
\* nothing else is taken to happen while the loop is suspended in that wait.
DequeueFail ==
    /\ pc = "wait"
    /\ BagIn(NewFuture("dequeue"), pending_futures)
    /\ pending_futures' = Add(Drop(pending_futures, NewFuture("dequeue")),
                              Completed(NewFuture("dequeue"), ExcRes("ExternalError")))
    /\ UNCHANGED <<pc, max_parallel_requests, work_request_map, done,
                   queue, msgState, abortReason, channel, finished, e, nextReq,
                   wsDisconnected, redisClosed, worker_session, toVisit, popped,
                   rollback, recov, completed, errored, termError, steps>>

\* Request ids a worker response may carry: null, or any id handed out so far
\* (an id whose entry is gone is an id absent from the ledger).
RidsOf(k) == IF k \in KeyedKinds THEN {NullId} \cup 1..(nextReq - 1) ELSE {NullId}

\* worker_utils.receive_worker_response returns the worker's next response
\* (read by the next asyncio.wait: see DequeueFail).
ReceiveComplete(k, r) ==
    /\ pc = "wait"
    /\ BagIn(NewFuture("receive"), pending_futures)
    /\ ~wsDisconnected
    /\ r \in RidsOf(k)
    /\ k = "token" /\ Found(work_request_map, r)
          => work_request_map[r].num_responses < MaxTokens
    /\ pending_futures' = Add(Drop(pending_futures, NewFuture("receive")),
                              Completed(NewFuture("receive"), RespRes(k, r)))
    /\ UNCHANGED <<pc, max_parallel_requests, work_request_map, done,
                   queue, msgState, abortReason, channel, finished, e, nextReq,
                   wsDisconnected, redisClosed, worker_session, toVisit, popped,
                   rollback, recov, completed, errored, termError, steps>>

\* The worker disconnects: the receive raises and the websocket's client_state
\* becomes DISCONNECTED.
ReceiveDisconnect ==
    /\ Running
    /\ BagIn(NewFuture("receive"), pending_futures)
    /\ ~wsDisconnected
    /\ pending_futures' = Add(Drop(pending_futures, NewFuture("receive")),
                              Completed(NewFuture("receive"),
                                        ExcRes("WebSocketDisconnect")))
    /\ wsDisconnected' = TRUE
    /\ UNCHANGED <<pc, max_parallel_requests, work_request_map, done,
                   queue, msgState, abortReason, channel, finished, e, nextReq,
                   redisClosed, worker_session, toVisit, popped, rollback, recov,
                   completed, errored, termError, steps>>

----------------------------------------------------------------------------
\* The loop of handle_worker

\* Where control goes after a step of the loop body: on with the for loop (or back
\* to the top of the while loop when `rest`, the unvisited part of done, is empty),
\* or, when the step raised err, into `except Exception as e` with the ledger map;
\* the for loop is then abandoned and what was left of `done` is never read again.
Control(err, map, rest) ==
    IF err = ""
    THEN /\ pc' = (IF rest = EmptyBag THEN "top" ELSE "iter")
         /\ done' = rest
         /\ UNCHANGED <<e, termError, toVisit, steps>>
    ELSE /\ pc' = "recover"
         /\ done' = EmptyBag
         /\ e' = err
         /\ termError' = err
         /\ toVisit' = DOMAIN map
         /\ steps' = <<"recovery">>

\* The constructor WorkerDisconnectException() takes no argument, so the call
\* WorkerDisconnectException("Worker disconnected") raises TypeError.
DisconnectRaised == "TypeError"

\* while True: if websocket.client_state == DISCONNECTED: raise ...
CheckConnected ==
    /\ pc = "top"
    /\ IF wsDisconnected
       THEN Control(DisconnectRaised, work_request_map, EmptyBag)
       ELSE pc' = "wait" /\ UNCHANGED <<done, e, termError, toVisit, steps>>
    /\ UNCHANGED <<max_parallel_requests, work_request_map, pending_futures,
                   queue, msgState, abortReason, channel, finished, nextReq,
                   wsDisconnected, redisClosed, worker_session, popped, rollback,
                   recov, completed, errored>>

\* `done, _ = await asyncio.wait(...)`: the returned pending set is dropped and the
\* old set, with the futures that are done, is kept.
StillPendingKeepsDone == pending_futures

DoneNow == Only(pending_futures, {x \in BagToSet(pending_futures) : IsDone(x)})
StillPending == Only(pending_futures, {x \in BagToSet(pending_futures) : ~IsDone(x)})

\* asyncio.wait(..., return_when=FIRST_COMPLETED) returns every future that is done.
Wait ==
    /\ pc = "wait"
    /\ DoneNow # EmptyBag
    /\ done' = DoneNow
    /\ pending_futures' = StillPending
    /\ pc' = "iter"
    /\ UNCHANGED <<max_parallel_requests, work_request_map, queue, msgState,
                   abortReason, channel, finished, e, nextReq, wsDisconnected,
                   redisClosed, worker_session, toVisit, popped, rollback, recov,
                   completed, errored, termError, steps>>

\* The wait times out with nothing done: a ping is sent, which may raise.
Timeout(ok) ==
    /\ pc = "wait"
    /\ DoneNow = EmptyBag
    /\ Control(IF ok THEN "" ELSE "SendError", work_request_map, EmptyBag)
    /\ UNCHANGED <<max_parallel_requests, work_request_map, pending_futures,
                   queue, msgState, abortReason, channel, finished, nextReq,
                   wsDisconnected, redisClosed, worker_session, popped, rollback,
                   recov, completed, errored>>

\* result = ftr.result() re-raises the exception the future ended with.
ResultRaises(x) ==
    /\ pc = "iter"
    /\ BagIn(x, done)
    /\ x.res.t = "exc"
    /\ Control(x.res.kind, work_request_map, Drop(done, x))
    /\ UNCHANGED <<max_parallel_requests, work_request_map, pending_futures,
                   queue, msgState, abortReason, channel, finished, nextReq,
                   wsDisconnected, redisClosed, worker_session, popped, rollback,
                   recov, completed, errored>>

----------------------------------------------------------------------------
\* Dispatch of a dequeued message

DispatchOutcomes == {"sent", "start_failed", "send_failed", "reset_failed",
                     "enqueue_failed"}

\* initiate_work_for_message without the `raise` that ends its except clause:
\* after the rollback the work request is returned as if it had been sent.
initiate_work_for_message_no_reraise(m, o) ==
    CASE o = "start_failed" ->
            [err |-> "ExternalError", st |-> "same", enq |-> FALSE, rb |-> "none"]
      [] o = "sent" ->
            [err |-> "", st |-> "in_progress", enq |-> FALSE, rb |-> "none"]
      [] o = "send_failed" ->
            [err |-> "", st |-> "pending", enq |-> TRUE, rb |-> "requeued"]
      [] o = "reset_failed" ->
            [err |-> "ExternalError", st |-> "in_progress", enq |-> FALSE,
             rb |-> "reset_failed"]
      [] o = "enqueue_failed" ->
            [err |-> "ExternalError", st |-> "pending", enq |-> FALSE,
             rb |-> "enqueue_failed"]

\* initiate_work_for_message(message_id=m) where o says which call raises:
\*   start_failed    cr.start_work raises
\*   sent            nothing raises, the work request is returned
\*   send_failed     send_worker_request raises; reset_work and enqueue succeed
\*   reset_failed    send_worker_request raises, then cr.reset_work raises
\*   enqueue_failed  send_worker_request raises, then work_queue.enqueue raises
\* An exception raised by the store, the queue or the session registry is
\* "ExternalError": no code path looks at its type.
\* err is the exception that leaves the function ("" when it returns), st the
\* message's new stored state, enq whether m was put back on the queue.
initiate_work_for_message(m, o) ==
    CASE o = "start_failed" ->
            [err |-> "ExternalError", st |-> "same", enq |-> FALSE, rb |-> "none"]
      [] o = "sent" ->
            [err |-> "", st |-> "in_progress", enq |-> FALSE, rb |-> "none"]
      [] o = "send_failed" ->
            [err |-> "SendError", st |-> "pending", enq |-> TRUE, rb |-> "requeued"]
      [] o = "reset_failed" ->
            [err |-> "ExternalError", st |-> "in_progress", enq |-> FALSE,
             rb |-> "reset_failed"]
      [] o = "enqueue_failed" ->
            [err |-> "ExternalError", st |-> "pending", enq |-> FALSE,
             rb |-> "enqueue_failed"]

NewContainer(m) == [message_id |-> m, num_responses |-> 0]

\* elif isinstance(result, tuple): try: ... finally: _add_dequeue(pending_futures)
Dispatch(x, o) ==
    /\ pc = "iter"
    /\ BagIn(x, done)
    /\ x.res.t = "item"
    /\ o \in DispatchOutcomes
    /\ nextReq <= MaxReq
    /\ LET m == x.res.m
           R == initiate_work_for_message(m, o)
           map1 == IF R.err = ""
                   THEN work_request_map @@ (nextReq :> NewContainer(m))
                   ELSE work_request_map
       IN  /\ work_request_map' = map1
           /\ nextReq' = IF o = "start_failed" THEN nextReq ELSE nextReq + 1
           /\ msgState' = IF R.st = "same" THEN msgState
                          ELSE [msgState EXCEPT ![m] = R.st]
           /\ queue' = IF R.enq THEN Append(queue, m) ELSE queue
           /\ rollback' = IF R.rb = "none" THEN rollback
                          ELSE [rollback EXCEPT ![m] = R.rb]
           /\ pending_futures' = add_dequeue(pending_futures, map1)
           /\ Control(R.err, map1, Drop(done, x))
    /\ UNCHANGED <<max_parallel_requests, abortReason, channel, finished,
                   wsDisconnected, redisClosed, worker_session, popped, recov,
                   completed, errored>>

----------------------------------------------------------------------------
\* Response handlers.  Each returns what it did as a record:
\*   err    the exception that leaves the handler, "" when it returns
\*   map    the ledger afterwards
\*   m, st  the message whose stored state becomes st ("same": no store change)
\*   reason the reason given to abort_work
\*   tok    a token payload was forwarded onto m's output channel
\*   fin    the finished notification was forwarded onto m's output channel
\*   sess   _update_session: "skip" not called, "ok" stored, "fail" raised

Effect(err, map, m, st, reason, tok, fin, sess) ==
    [err |-> err, map |-> map, m |-> m, st |-> st, reason |-> reason, tok |-> tok,
     fin |-> fin, sess |-> sess]

NoEffect(err, map) == Effect(err, map, 0, "same", "", FALSE, FALSE, "skip")

Remove(map, rid) == [r \in DOMAIN map \ {rid} |-> map[r]]

TokenOutcomes == {"ok", "enqueue_failed"}

\* handle_token_response counting the response on every entry of the ledger
\* instead of the entry of its request id.
handle_token_response_counts_all(map, rid, o) ==
    IF ~Found(map, rid) THEN NoEffect("WorkRequestNotFound", map)
    ELSE IF o = "enqueue_failed" THEN NoEffect("ExternalError", map)
    ELSE Effect("", [r \in DOMAIN map |-> [map[r] EXCEPT !.num_responses = @ + 1]],
                map[rid].message_id, "same", "", TRUE, FALSE, "skip")

\* handle_token_response with a lookup that returns None for a missing request id
\* and a handler that then returns without forwarding anything.
handle_token_response_ignore_missing(map, rid, o) ==
    IF ~Found(map, rid) THEN NoEffect("", map)
    ELSE IF o = "enqueue_failed" THEN NoEffect("ExternalError", map)
    ELSE Effect("", [map EXCEPT ![rid].num_responses = @ + 1],
                map[rid].message_id, "same", "", TRUE, FALSE, "skip")

handle_token_response(map, rid, o) ==
    IF ~Found(map, rid) THEN NoEffect("WorkRequestNotFound", map)
    ELSE IF o = "enqueue_failed" THEN NoEffect("ExternalError", map)
    ELSE Effect("", [map EXCEPT ![rid].num_responses = @ + 1],
                map[rid].message_id, "same", "", TRUE, FALSE, "skip")

GeneratedTextOutcomes == {"ok", "complete_failed", "notify_failed", "session_failed"}

\* handle_generated_text_response with `del work_request_map[...]` moved up, before
\* complete_work: the entry is gone even when complete_work then raises.
handle_generated_text_response_del_first(map, rid, o) ==
    IF ~Found(map, rid) THEN NoEffect("WorkRequestNotFound", map)
    ELSE IF o = "complete_failed" THEN NoEffect("ExternalError", Remove(map, rid))
    ELSE IF o = "notify_failed"
         THEN Effect("ExternalError", Remove(map, rid), map[rid].message_id,
                     "complete", "", FALSE, FALSE, "skip")
    ELSE Effect(IF o = "session_failed" THEN "ExternalError" ELSE "",
                Remove(map, rid), map[rid].message_id, "complete", "",
                FALSE, TRUE, IF o = "session_failed" THEN "fail" ELSE "ok")

\* complete_work, then the finished notification, then del work_request_map[...];
\* _update_session follows in handle_worker.
handle_generated_text_response(map, rid, o) ==
    IF ~Found(map, rid) THEN NoEffect("WorkRequestNotFound", map)
    ELSE IF o = "complete_failed" THEN NoEffect("ExternalError", map)
    ELSE IF o = "notify_failed"
         THEN Effect("ExternalError", map, map[rid].message_id, "complete", "",
                     FALSE, FALSE, "skip")
    ELSE Effect(IF o = "session_failed" THEN "ExternalError" ELSE "",
                Remove(map, rid), map[rid].message_id, "complete", "",
                FALSE, TRUE, IF o = "session_failed" THEN "fail" ELSE "ok")

ErrorOutcomes == {"ok", "abort_failed", "session_failed"}

\* handle_error_response without its last line, `del work_request_map[...]`.
handle_error_response_keep_entry(map, rid, o) ==
    IF ~Found(map, rid) THEN NoEffect("WorkRequestNotFound", map)
    ELSE IF o = "abort_failed" THEN NoEffect("ExternalError", map)
    ELSE Effect(IF o = "session_failed" THEN "ExternalError" ELSE "",
                map, map[rid].message_id, "aborted", "WorkerError",
                FALSE, FALSE, IF o = "session_failed" THEN "fail" ELSE "ok")

\* abort_work(reason=str(response.error)), then del work_request_map[...];
\* _update_session follows in handle_worker.
handle_error_response(map, rid, o) ==
    IF ~Found(map, rid) THEN NoEffect("WorkRequestNotFound", map)
    ELSE IF o = "abort_failed" THEN NoEffect("ExternalError", map)
    ELSE Effect(IF o = "session_failed" THEN "ExternalError" ELSE "",
                Remove(map, rid), map[rid].message_id, "aborted", "WorkerError",
                FALSE, FALSE, IF o = "session_failed" THEN "fail" ELSE "ok")

\* A general_error handled as the failure of every request in flight: the ledger
\* is emptied before the session is updated.
update_session_clearing(map, ok) ==
    Effect(IF ok THEN "" ELSE "ExternalError", EmptyMap, 0, "same", "", FALSE, FALSE,
           IF ok THEN "ok" ELSE "fail")

\* case "pong" and case "general_error": only _update_session(metrics).
update_session_only(map, ok) ==
    Effect(IF ok THEN "" ELSE "ExternalError", map, 0, "same", "", FALSE, FALSE,
           IF ok THEN "ok" ELSE "fail")

\* The finally of the response branch re-arming the receive only.
ReceiveFinallyNoDequeue(ftrs, map) == add_receive(ftrs)

\* finally: if len(pending_futures) == 0: _add_dequeue(...); _add_receive(...)
ReceiveFinally(ftrs, map) ==
    add_receive(IF BagCardinality(ftrs) = 0 THEN add_dequeue(ftrs, map) ELSE ftrs)

\* The effect R of a handler on the state, followed by the finally clause.
ApplyResponse(x, R) ==
        /\ work_request_map' = R.map
        /\ msgState' = IF R.st = "same" THEN msgState
                       ELSE [msgState EXCEPT ![R.m] = R.st]
        /\ abortReason' = IF R.st = "aborted"
                          THEN [abortReason EXCEPT ![R.m] = R.reason]
                          ELSE abortReason
        /\ channel' = IF R.tok THEN [channel EXCEPT ![R.m] = @ + 1] ELSE channel
        /\ finished' = IF R.fin THEN [finished EXCEPT ![R.m] = TRUE] ELSE finished
        /\ completed' = IF R.st = "complete" THEN completed \cup {R.m} ELSE completed
        /\ errored' = IF x.res.kind = "error" /\ Found(work_request_map, x.res.rid)
                       THEN errored \cup {work_request_map[x.res.rid].message_id}
                       ELSE errored
        /\ worker_session' =
              IF R.sess = "ok"
              THEN [worker_session EXCEPT
                       !.requests_in_flight = Cardinality(DOMAIN R.map)]
              ELSE worker_session
        /\ pending_futures' = ReceiveFinally(pending_futures, R.map)
        /\ Control(R.err, R.map, Drop(done, x))
        /\ UNCHANGED <<max_parallel_requests, queue, nextReq, wsDisconnected,
                       redisClosed, popped, rollback, recov>>

IsResponse(x, k) ==
    /\ pc = "iter"
    /\ BagIn(x, done)
    /\ x.res.t = "resp"
    /\ x.res.kind = k

HandlePong(x, ok) ==
    /\ IsResponse(x, "pong")
    /\ ApplyResponse(x, update_session_only(work_request_map, ok))

HandleToken(x, o) ==
    /\ IsResponse(x, "token")
    /\ o \in TokenOutcomes
    /\ Found(work_request_map, x.res.rid) /\ o = "ok"
          => work_request_map[x.res.rid].num_responses < MaxTokens
    /\ ApplyResponse(x, handle_token_response(work_request_map, x.res.rid, o))

HandleGeneratedText(x, o) ==
    /\ IsResponse(x, "generated_text")
    /\ o \in GeneratedTextOutcomes
    /\ ApplyResponse(x, handle_generated_text_response(work_request_map,
                                                       x.res.rid, o))

HandleError(x, o) ==
    /\ IsResponse(x, "error")
    /\ o \in ErrorOutcomes
    /\ ApplyResponse(x, handle_error_response(work_request_map, x.res.rid, o))

HandleGeneralError(x, ok) ==
    /\ IsResponse(x, "general_error")
    /\ ApplyResponse(x, update_session_only(work_request_map, ok))

\* case _: raise RuntimeError("Unknown response type")
HandleUnknown(x) ==
    /\ IsResponse(x, "unknown")
    /\ ApplyResponse(x, NoEffect("RuntimeError", work_request_map))

----------------------------------------------------------------------------
\* except Exception as e: the recovery pass over work_request_map.values()

RecoverOutcomes == {"ok", "reset_failed", "enqueue_failed", "abort_failed"}

\* if container.num_responses == 0: reset and re-enqueue, else: abort.
RecoveryBranch(n) == IF n = 0 THEN "requeue" ELSE "abort"

\* `except Exception as e` inside the for loop binds the same local e as the outer
\* clause and deletes it when the inner clause ends: afterwards e is unbound.
AfterInnerExcept(bound) == "unbound"

\* One iteration of the for loop for a container with n responses, e bound to
\* `bound`.  str(e) with e unbound raises UnboundLocalError before abort_work is
\* called ("abort_skipped").  tag is what happened, st the stored state set
\* ("same": none), enq whether the message id was enqueued, e the binding of e
\* after the iteration.
recover_container(n, bound, o) ==
    IF RecoveryBranch(n) = "requeue"
    THEN CASE o = "reset_failed" ->
                 [tag |-> "reset_failed", st |-> "same", enq |-> FALSE,
                  e |-> AfterInnerExcept(bound)]
           [] o = "enqueue_failed" ->
                 [tag |-> "enqueue_failed", st |-> "pending", enq |-> FALSE,
                  e |-> AfterInnerExcept(bound)]
           [] OTHER ->
                 [tag |-> "requeued", st |-> "pending", enq |-> TRUE, e |-> bound]
    ELSE IF bound = "unbound"
         THEN [tag |-> "abort_skipped", st |-> "same", enq |-> FALSE,
               e |-> AfterInnerExcept(bound)]
         ELSE IF o = "abort_failed"
              THEN [tag |-> "abort_failed", st |-> "same", enq |-> FALSE,
                    e |-> AfterInnerExcept(bound)]
              ELSE [tag |-> "aborted", st |-> "aborted", enq |-> FALSE, e |-> bound]

\* The outcomes that differ for a container, so that no step is taken twice.
OutcomesFor(n, bound) ==
    IF RecoveryBranch(n) = "requeue" THEN {"ok", "reset_failed", "enqueue_failed"}
    ELSE IF bound = "unbound" THEN {"ok"}
    ELSE {"ok", "abort_failed"}

\* dict.values() iterates in insertion order, which is the order of request ids.
NextToVisit == CHOOSE r \in toVisit : \A q \in toVisit : r <= q

RecoverEntry(o) ==
    /\ pc = "recover"
    /\ toVisit # {}
    /\ LET r == NextToVisit
           c == work_request_map[r]
           R == recover_container(c.num_responses, e, o)
       IN  /\ o \in OutcomesFor(c.num_responses, e)
           /\ recov' = [recov EXCEPT ![r] = R.tag]
           /\ msgState' = IF R.st = "same" THEN msgState
                          ELSE [msgState EXCEPT ![c.message_id] = R.st]
           /\ abortReason' = IF R.st = "aborted"
                             THEN [abortReason EXCEPT ![c.message_id] = e]
                             ELSE abortReason
           /\ queue' = IF R.enq THEN Append(queue, c.message_id) ELSE queue
           /\ e' = R.e
           /\ toVisit' = toVisit \ {r}
    /\ UNCHANGED <<pc, max_parallel_requests, work_request_map, pending_futures,
                   done, channel, finished, nextReq, wsDisconnected, redisClosed,
                   worker_session, popped, rollback, completed, errored,
                   termError, steps>>

----------------------------------------------------------------------------
\* finally: the four cleanup steps, each in its own try/except

\* Without the try/except around each step a failure would leave the clause.
NextStepNoIsolation(step, ok) ==
    IF ~ok THEN "finished"
    ELSE CASE step = "close_redis" -> "delete_session"
           [] step = "delete_session" -> "cancel"
           [] step = "cancel" -> "close_ws"
           [] step = "close_ws" -> "finished"

\* Where control goes after a cleanup step, whether or not it raised.
NextStep(step, ok) ==
    CASE step = "close_redis" -> "delete_session"
      [] step = "delete_session" -> "cancel"
      [] step = "cancel" -> "close_ws"
      [] step = "close_ws" -> "finished"

\* The cleanup steps run from `step` on, where ok[s] says whether step s succeeds.
RECURSIVE StepsFrom(_, _)
StepsFrom(step, ok) ==
    IF step = "finished" THEN <<>>
    ELSE <<step>> \o StepsFrom(NextStep(step, ok[step]), ok)

Cancel(x) == IF IsRunning(x) THEN [x EXCEPT !.st = "cancelled"] ELSE x

\* for ftr in pending_futures: ftr.cancel()  (a future that is done stays done)
Cancelled(ftrs) ==
    [y \in {Cancel(x) : x \in BagToSet(ftrs)} |->
        ftrs[CHOOSE x \in BagToSet(ftrs) : Cancel(x) = y]]

\* The finally clause, entered when the recovery loop is over: redis_client.close(),
\* delete_worker_session, ftr.cancel() for every pending future, websocket.close().
\* A dequeue that completes between two of these steps has the effect of one that
\* completes just before the clause.
Finally(okRedis, okSession, okWs) ==
    /\ pc = "recover"
    /\ toVisit = {}
    /\ LET ok == [close_redis |-> okRedis, delete_session |-> okSession,
                  cancel |-> TRUE, close_ws |-> okWs]
           run == StepsFrom("close_redis", ok)
           Ran(step) == \E i \in DOMAIN run : run[i] = step
       IN  /\ steps' = steps \o run
           /\ redisClosed' = (Ran("close_redis") /\ okRedis)
           /\ pending_futures' = IF Ran("cancel") THEN Cancelled(pending_futures)
                                 ELSE pending_futures
    /\ pc' = "finished"
    /\ UNCHANGED <<max_parallel_requests, work_request_map, done, queue, msgState,
                   abortReason, channel, finished, e, nextReq, wsDisconnected,
                   worker_session, toVisit, popped, rollback, recov, completed,
                   errored,
                   termError>>

----------------------------------------------------------------------------
Futures == BagToSet(done)

Next ==
    \/ \E m \in Msgs : ClientEnqueue(m)
    \/ DequeueComplete
    \/ DequeueFail
    \/ \E k \in Kinds, r \in {NullId} \cup ReqIds : ReceiveComplete(k, r)
    \/ ReceiveDisconnect
    \/ CheckConnected
    \/ Wait
    \/ \E ok \in BOOLEAN : Timeout(ok)
    \/ \E x \in Futures : ResultRaises(x)
    \/ \E x \in Futures, o \in DispatchOutcomes : Dispatch(x, o)
    \/ \E x \in Futures, ok \in BOOLEAN : HandlePong(x, ok)
    \/ \E x \in Futures, o \in TokenOutcomes : HandleToken(x, o)
    \/ \E x \in Futures, o \in GeneratedTextOutcomes : HandleGeneratedText(x, o)
    \/ \E x \in Futures, o \in ErrorOutcomes : HandleError(x, o)
    \/ \E x \in Futures, ok \in BOOLEAN : HandleGeneralError(x, ok)
    \/ \E x \in Futures : HandleUnknown(x)
    \/ \E o \in RecoverOutcomes : RecoverEntry(o)
    \/ \E okRedis, okSession, okWs \in BOOLEAN : Finally(okRedis, okSession, okWs)

Spec == Init /\ [][Next]_vars

\* Shape of the state; request ids never run out before the messages do.
TypeOK ==
    /\ pc \in {"top", "wait", "iter", "recover", "finished"}
    /\ IsABag(pending_futures) /\ IsABag(done)
    /\ nextReq <= MaxReq
    /\ DOMAIN work_request_map \subseteq ReqIds

----------------------------------------------------------------------------
\* Properties

Size(map) == Cardinality(DOMAIN map)
InQueue(m) == \E i \in DOMAIN queue : queue[i] = m
EntriesOf(m) == {r \in DOMAIN work_request_map : work_request_map[r].message_id = m}
PendingDequeues == CopiesIn(NewFuture("dequeue"), pending_futures)
PendingReceives == CopiesIn(NewFuture("receive"), pending_futures)

\* Tags of recov: the entry's own store or queue call raised / recovery called
\* reset_work for the entry / recovery enqueued the entry's message id.
OwnCallRaised == {"reset_failed", "enqueue_failed", "abort_failed"}
ResetCalled == {"requeued", "reset_failed", "enqueue_failed"}
AbortCalled == {"aborted", "abort_failed"}

\* Successful work_queue.enqueue(m) calls of this connection.
Requeues(m) ==
    (IF rollback[m] = "requeued" THEN 1 ELSE 0)
      + Cardinality({r \in EntriesOf(m) : recov[r] = "requeued"})

\* C1: while the loop runs, a dequeue operation is pending only if
\* len(work_request_map) < max_parallel_requests.
C1_CapacityInvariant ==
    Running /\ PendingDequeues > 0 => Size(work_request_map) < max_parallel_requests

\* C2: when the connection has finished, every entry that was in the ledger at
\* termination and whose own recovery calls did not raise was re-enqueued (after
\* reset_work) if its num_responses is 0 and aborted if it is positive.
C2_RecoveryPartition ==
    pc = "finished" =>
        \A r \in DOMAIN work_request_map :
            recov[r] \notin OwnCallRaised =>
                recov[r] = (IF work_request_map[r].num_responses = 0
                            THEN "requeued" ELSE "aborted")

\* C3: once teardown has finished, every message a dequeue of this connection
\* took from the queue is complete with its finished notification sent, or
\* aborted with a reason, or in the queue again.
C3_NoMessageLost ==
    pc = "finished" =>
        \A m \in popped :
            \/ msgState[m] = "complete" /\ finished[m]
            \/ msgState[m] = "aborted" /\ abortReason[m] # ""
            \/ InQueue(m)

\* C4: if the recovery of one ledger entry raised, every other entry still got its
\* outcome: reset and re-enqueue for num_responses = 0, abort with the terminating
\* error as reason for num_responses > 0 (unless its own call raised as well).
C4_RecoveryIsolation ==
    pc = "finished" =>
        \A q, r \in DOMAIN work_request_map :
            q # r /\ recov[q] \in OwnCallRaised /\ recov[r] \notin OwnCallRaised =>
                IF work_request_map[r].num_responses = 0
                THEN recov[r] = "requeued"
                ELSE /\ recov[r] = "aborted"
                     /\ abortReason[work_request_map[r].message_id] = termError

AllSteps == <<"recovery", "close_redis", "delete_session", "cancel", "close_ws">>

\* C5: whatever ended the loop and whichever steps raised, the termination steps run
\* in the order recovery, close of the queue connection, deletion of the session,
\* cancellation of the pending operations, close of the connection; recovery visits
\* every ledger entry and no operation is left pending.
C5_TerminationSequence ==
    /\ Running => steps = <<>>
    /\ pc = "recover" => steps = <<"recovery">>
    /\ pc = "finished" =>
          /\ steps = AllSteps
          /\ \A r \in DOMAIN work_request_map : recov[r] # "none"
          /\ PendingDequeues = 0 /\ PendingReceives = 0

\* C5 witness: the close of the queue connection and the recovery of an entry both
\* raised, and every step ran.
C5_Witness ==
    /\ pc = "finished"
    /\ ~redisClosed
    /\ \E r \in DOMAIN work_request_map : recov[r] \in OwnCallRaised

\* C6: a failed send after start_work always ends with the message reset and
\* re-enqueued exactly once, no ledger entry for it, and the loop terminated;
\* recovery does not re-enqueue it again (Requeues counts recovery's enqueues too).
C6_TransmissionFailure ==
    \A m \in Msgs :
        rollback[m] # "none" =>
            /\ rollback[m] = "requeued"
            /\ Requeues(m) = 1
            /\ EntriesOf(m) = {}
            /\ msgState[m] # "aborted"
            /\ ~Running

\* C7: a message with a token forwarded onto its output channel is never reset or
\* re-enqueued by this connection, and if the connection finished with its entry in
\* the ledger it is aborted with the terminating error as reason (unless abort_work
\* itself raised).
C7_PartialOutputNeverRetried ==
    \A r \in DOMAIN work_request_map :
        LET m == work_request_map[r].message_id
        IN  channel[m] > 0 =>
              /\ rollback[m] = "none"
              /\ recov[r] \notin ResetCalled
              /\ pc = "finished" /\ recov[r] # "abort_failed" =>
                    /\ recov[r] = "aborted"
                    /\ msgState[m] = "aborted"
                    /\ abortReason[m] = termError

\* C8: a message whose complete_work succeeded has no ledger entry that recovery
\* resets, re-enqueues or aborts, and stays complete.
C8_CompletedStaysCompleted ==
    \A m \in completed :
        /\ msgState[m] = "complete"
        /\ \A r \in EntriesOf(m) : recov[r] = "none"

\* C9: no message_id appears in more than one entry of work_request_map.
C9_LedgerUniqueness ==
    \A q, r \in DOMAIN work_request_map :
        work_request_map[q].message_id = work_request_map[r].message_id => q = r

\* C9 witness: two requests are in flight at once.
C9_Witness == Size(work_request_map) >= 2

\* C10: while the loop runs, at most one dequeue operation is pending.
C10_AtMostOneDequeue == Running => PendingDequeues <= 1

\* Futures of the receive kind, in whatever state, that the loop still holds.
ReceiveFutures ==
    LET all == pending_futures (+) done
    IN  BagCardinality(Only(all, {x \in BagToSet(all) : x.kind = "receive"}))

\* C11: while the loop runs at most one receive operation is pending, and at most
\* one received response is waiting to be routed: a response is routed before the
\* next one is read, so responses are routed in the order the worker sent them.
C11_InOrderResponses ==
    Running => PendingReceives <= 1 /\ ReceiveFutures <= 1

\* C11 witness: a response and a dequeued message came back from the same wait.
C11_Witness ==
    /\ pc = "iter"
    /\ \E x, y \in Futures : x.res.t = "resp" /\ y.res.t = "item"

\* The step that routes the response x: only the response branch adds a receive.
ResponseStep(x) ==
    /\ pc = "iter"
    /\ BagIn(x, done)
    /\ x.res.t = "resp"
    /\ PendingReceives' = PendingReceives + 1

IsProtocolError(x) ==
    \/ x.res.kind \notin {"pong", "token", "generated_text", "error", "general_error"}
    \/ x.res.kind \in KeyedKinds /\ ~Found(work_request_map, x.res.rid)

\* C12: routing a response of an unknown kind, or a token, generated_text or error
\* response whose request_id is null or not in the ledger, ends the loop with
\* recovery due for every ledger entry, and changes no ledger entry, no
\* num_responses, no stored message state and no output channel.
C12_ProtocolErrorsTerminate ==
    [][\A x \in Futures :
          ResponseStep(x) /\ IsProtocolError(x) =>
              /\ pc' = "recover"
              /\ termError' \in {"RuntimeError", "WorkRequestNotFound"}
              /\ toVisit' = DOMAIN work_request_map
              /\ UNCHANGED <<work_request_map, msgState, abortReason, channel,
                             finished, queue>>]_vars

\* C12 witness: a response naming a request that is not in the ledger ended the
\* loop while another request was in flight.
C12_Witness ==
    /\ pc = "recover"
    /\ termError = "WorkRequestNotFound"
    /\ toVisit # {}

\* The abort_work of the error handler succeeded for m: recovery's abort_work never
\* gives the worker's reported error as reason.
AbortedByWorkerError(m) == msgState[m] = "aborted" /\ abortReason[m] = "WorkerError"

\* C13 as stated: once an error response was routed for a request in the ledger, the
\* message is aborted with the reported error, its entry is gone and the message is
\* not put back on the queue.
C13_ErrorAbortsAlways ==
    \A m \in errored :
        /\ AbortedByWorkerError(m)
        /\ EntriesOf(m) = {}
        /\ ~InQueue(m)

\* C13 amended: if the handler's abort_work succeeded the message is and stays
\* aborted with the reported error, its entry is gone and the message is never put
\* back on the queue, whatever num_responses was; if abort_work raised, the entry
\* stays in the ledger, the store is unchanged by the handler and the loop has
\* ended with that exception, which leaves the entry to the recovery pass.
C13_ErrorAborts ==
    \A m \in errored :
        IF AbortedByWorkerError(m)
        THEN /\ EntriesOf(m) = {}
             /\ ~InQueue(m)
             /\ rollback[m] = "none"
        ELSE /\ ~Running
             /\ termError = "ExternalError"
             /\ EntriesOf(m) # {}

\* C13 witness: an error response came after a token had been forwarded; the message
\* is aborted and the connection has finished.
C13_Witness ==
    /\ pc = "finished"
    /\ \E m \in errored : AbortedByWorkerError(m) /\ channel[m] > 0

\* C14: routing a pong or a general_error response adds, removes and changes no
\* ledger entry and changes no stored message state, output channel or queue; of
\* the stored data only the WorkerSession may change.
C14_PongLeavesLedger ==
    [][\A x \in Futures :
          ResponseStep(x) /\ x.res.kind \in {"pong", "general_error"} =>
              /\ UNCHANGED <<work_request_map, msgState, abortReason, channel,
                             finished, queue, nextReq, completed, errored>>
              /\ \/ worker_session' = worker_session
                 \/ worker_session' =
                        [requests_in_flight |-> Size(work_request_map)]]_vars

\* C14 witness: the session was stored with requests in flight, and not by the
\* generated_text or error branch: no message was completed or reported failed.
C14_Witness ==
    /\ worker_session.requests_in_flight >= 1
    /\ worker_session.requests_in_flight = Size(work_request_map)
    /\ completed = {} /\ errored = {}

\* C15: a step that adds an entry adds it with num_responses = 0 for the dequeued
\* message, marked started and sent without error; a kept entry keeps its message
\* and its num_responses does not decrease; an entry is removed only by routing a
\* generated_text or error response with its request id whose complete_work or
\* abort_work succeeded.
C15_EntryLifecycle ==
    [][/\ \A r \in DOMAIN work_request_map' \ DOMAIN work_request_map :
             LET c == work_request_map'[r]
             IN  /\ c.num_responses = 0
                 /\ \E x \in Futures : x.res.t = "item" /\ x.res.m = c.message_id
                 /\ msgState'[c.message_id] = "in_progress"
                 /\ rollback'[c.message_id] = "none"
                 /\ pc' # "recover"
       /\ \A r \in DOMAIN work_request_map \cap DOMAIN work_request_map' :
             /\ work_request_map'[r].message_id = work_request_map[r].message_id
             /\ work_request_map'[r].num_responses >= work_request_map[r].num_responses
       /\ \A r \in DOMAIN work_request_map \ DOMAIN work_request_map' :
             LET m == work_request_map[r].message_id
             IN  \E x \in Futures :
                    /\ ResponseStep(x)
                    /\ x.res.rid = r
                    /\ \/ x.res.kind = "generated_text" /\ msgState'[m] = "complete"
                       \/ /\ x.res.kind = "error"
                          /\ msgState'[m] = "aborted"
                          /\ abortReason'[m] = "WorkerError"]_vars

\* C15 witness: one request was completed and removed while another, with a token
\* counted, is still in the ledger.
C15_Witness ==
    /\ Running
    /\ completed # {}
    /\ \E r \in DOMAIN work_request_map : work_request_map[r].num_responses > 0

\* C16: routing a token or generated_text response with request id r leaves every
\* other ledger entry and every other message's channel and stored state as they
\* were.  A token is forwarded onto the channel of entry r's message and counted
\* once on entry r (or, when forwarding raised, nothing changed and the loop
\* ended); a generated_text completes entry r's message and removes entry r (or,
\* when complete_work or the notification raised, entry r is unchanged and the loop
\* ended).
C16_PerRequestAttribution ==
    [][\A x \in Futures :
          /\ ResponseStep(x)
          /\ x.res.kind \in {"token", "generated_text"}
          /\ Found(work_request_map, x.res.rid)
          => LET r == x.res.rid
                 m == work_request_map[r].message_id
             IN  /\ \A q \in DOMAIN work_request_map \ {r} :
                       /\ q \in DOMAIN work_request_map'
                       /\ work_request_map'[q] = work_request_map[q]
                 /\ DOMAIN work_request_map' \subseteq DOMAIN work_request_map
                 /\ \A k \in Msgs \ {m} :
                       /\ channel'[k] = channel[k]
                       /\ finished'[k] = finished[k]
                       /\ msgState'[k] = msgState[k]
                       /\ abortReason'[k] = abortReason[k]
                 /\ x.res.kind = "token" =>
                       /\ msgState' = msgState /\ finished' = finished
                       /\ r \in DOMAIN work_request_map'
                       /\ work_request_map'[r].message_id = m
                       /\ \/ /\ channel'[m] = channel[m] + 1
                             /\ work_request_map'[r].num_responses =
                                   work_request_map[r].num_responses + 1
                             /\ pc' # "recover"
                          \/ /\ channel'[m] = channel[m]
                             /\ work_request_map'[r] = work_request_map[r]
                             /\ pc' = "recover"
                 /\ x.res.kind = "generated_text" =>
                       /\ channel' = channel
                       /\ \/ /\ msgState'[m] = "complete" /\ finished'[m]
                             /\ r \notin DOMAIN work_request_map'
                          \/ /\ pc' = "recover" /\ ~finished'[m]
                             /\ r \in DOMAIN work_request_map'
                             /\ work_request_map'[r] = work_request_map[r]]_vars

\* C16 witness: two requests in flight, a token routed to one of them only.
C16_Witness ==
    \E q, r \in DOMAIN work_request_map :
        /\ work_request_map[q].num_responses = 1
        /\ channel[work_request_map[q].message_id] = 1
        /\ work_request_map[r].num_responses = 0
        /\ channel[work_request_map[r].message_id] = 0

\* C17: the ledger never holds more than max_parallel_requests entries.
C17_LedgerWithinCap == Size(work_request_map) <= max_parallel_requests

\* Dequeue futures in pending_futures, running or done and not yet returned by
\* asyncio.wait.
DequeueFutures ==
    BagCardinality(Only(pending_futures,
                        {x \in BagToSet(pending_futures) : x.kind = "dequeue"}))

\* C18: whenever the loop is at its wait step with fewer than
\* max_parallel_requests entries in the ledger, pending_futures holds a dequeue.
C18_NoCapacityStall ==
    pc = "wait" /\ Size(work_request_map) < max_parallel_requests
        => DequeueFutures > 0

\* C18 witness: a request was completed with the ledger full, and the loop is back
\* at its wait step with free capacity.
C18_Witness ==
    /\ pc = "wait"
    /\ completed # {}
    /\ Size(work_request_map) < max_parallel_requests
    /\ nextReq > max_parallel_requests

\* C19: when the loop ended on the worker's disconnect and recovery has reset and
\* re-enqueued a message that had no response (its reset_work and enqueue did not
\* raise), the message was enqueued once and, no other connection being there to
\* take it, is in the queue when teardown has completed: this connection's own
\* pending dequeue did not take it out again.
C19_RequeuedStaysAvailable ==
    pc = "finished" /\ termError \in {DisconnectRaised, "WebSocketDisconnect"} =>
        \A r \in DOMAIN work_request_map :
            LET m == work_request_map[r].message_id
            IN  work_request_map[r].num_responses = 0 /\ recov[r] = "requeued" =>
                    Requeues(m) = 1 /\ InQueue(m)

====
